---- MODULE Spec2Model ----
(***************************************************************************)
(* SnowTelemetry.py: the RouteStats and SnowLines batch run driven by     *)
(* main().  The run is a straight-line program over geodatabase tables;    *)
(* every arcpy call is one step that either completes or raises.           *)
(*                                                                         *)
(* Tables are sets of rows.  Double fields hold exact rationals            *)
(* [n |-> numerator, d |-> denominator > 0]; a NULL double is NullD.       *)
(* Geometry is one coordinate x in feet along a line: a ping is a point,   *)
(* a road segment is a point, a dissolved group is the set of its members' *)
(* points, and distance is the least absolute difference.                  *)
(***************************************************************************)
EXTENDS Integers, Sequences, FiniteSets, TLC

\* ---------------------------------------------------------------- bounds
\* Largest number of road segments in the road-reference store.
MaxSegs == 2
\* Largest number of pings in the telemetry view.
MaxPings == 2
\* Largest number of times the script is started in one behaviour.
MaxRuns == 2

\* ------------------------------------------------------ program constants
\* "TEMPORAL < 25" of the where clause.
TemporalLimit == 25
\* "spd <= 35" of the where clause.
SpeedLimit == 35
\* Buffer radius (feet) of snow types 1 and 2.
RadiusMain == 50
\* Buffer radius (feet) of snow types 3 and 4.
RadiusSection == 25
\* Number of rows of the snow_types list.
NumSnowTypes == 4
\* The factor of "(!dotsperlanemile!/!dotsperlanemilemax!)*100".
PercentFactor == 100

\* ------------------------------------------------------------- rationals
Abs(i) == IF i < 0 THEN -i ELSE i

RECURSIVE GCD(_, _)
GCD(a, b) == IF b = 0 THEN a ELSE GCD(b, a % b)

\* The rational n/d (d > 0) in lowest terms.
Rat(n, d) == LET g == GCD(Abs(n), d) IN [n |-> n \div g, d |-> d \div g]

\* NULL of a double field.
NullD == [n |-> 0, d |-> 0]
IsNull(r) == r.d = 0
Zero == Rat(0, 1)
IsZero(r) == r.d # 0 /\ r.n = 0

\* a > b, a + b, a * b and a / b on non-NULL rationals (b # 0 for RatDiv).
RatGt(a, b) == a.n * b.d > b.n * a.d
RatAdd(a, b) == Rat(a.n * b.d + b.n * a.d, a.d * b.d)
RatMul(a, b) == Rat(a.n * b.n, a.d * b.d)
RatDiv(a, b) == IF b.n > 0 THEN Rat(a.n * b.d, a.d * b.n)
                           ELSE Rat(-(a.n * b.d), a.d * (-b.n))

\* NULL of a text field.
NullS == "<Null>"

\* ------------------------------------------------------------ the inputs
\* Road segments the road-reference store may hold (RoadwayInformation).
SegmentPool ==
  { [SNOW_FID |-> "R1",    SNOW_DIST |-> "D1",    SNOW_TYPE |-> "1", ROAD_NAME |-> "Main",  LN_TOTALMI |-> Rat(1, 1), x |-> 0],
    [SNOW_FID |-> "R2",    SNOW_DIST |-> "D1",    SNOW_TYPE |-> "1", ROAD_NAME |-> "Oak",   LN_TOTALMI |-> Rat(2, 1), x |-> 0],
    [SNOW_FID |-> "NORTE", SNOW_DIST |-> "D1",    SNOW_TYPE |-> "1", ROAD_NAME |-> "Main",  LN_TOTALMI |-> Rat(1, 1), x |-> 0],
    [SNOW_FID |-> "R4",    SNOW_DIST |-> "NORTE", SNOW_TYPE |-> "1", ROAD_NAME |-> "Elm",   LN_TOTALMI |-> Rat(1, 1), x |-> 0],
    [SNOW_FID |-> "R5",    SNOW_DIST |-> "D1",    SNOW_TYPE |-> "2", ROAD_NAME |-> "Pine",  LN_TOTALMI |-> Zero,      x |-> 0],
    [SNOW_FID |-> "R6",    SNOW_DIST |-> "D1",    SNOW_TYPE |-> "3", ROAD_NAME |-> "Ash",   LN_TOTALMI |-> NullD,     x |-> 0],
    [SNOW_FID |-> NullS,   SNOW_DIST |-> "D1",    SNOW_TYPE |-> "4", ROAD_NAME |-> "Fir",   LN_TOTALMI |-> Rat(1, 1), x |-> 0],
    [SNOW_FID |-> "R8",    SNOW_DIST |-> "D1",    SNOW_TYPE |-> "3", ROAD_NAME |-> "Birch", LN_TOTALMI |-> Rat(1, 1), x |-> 0],
    [SNOW_FID |-> "R7",    SNOW_DIST |-> "D1",    SNOW_TYPE |-> "1", ROAD_NAME |-> "Low",   LN_TOTALMI |-> Rat(-200, 1), x |-> 0] }

\* Pings the telemetry view may hold (vw_AVLplow24).
PingPool ==
  { [unitName |-> "U1", datetime |-> 1, temporal |-> 1,  spd |-> 10, x |-> 0],
    [unitName |-> "U1", datetime |-> 2, temporal |-> 2,  spd |-> 35, x |-> 30],
    [unitName |-> "U2", datetime |-> 1, temporal |-> 25, spd |-> 10, x |-> 0],
    [unitName |-> "U2", datetime |-> 2, temporal |-> 1,  spd |-> 40, x |-> 0] }

Networks == { S \in SUBSET SegmentPool : Cardinality(S) <= MaxSegs }
Feeds == { S \in SUBSET PingPool : Cardinality(S) <= MaxPings }

\* The inputs of the earlier run whose outputs a deployed installation holds.
OldRoutes ==
  { [SNOW_FID |-> "R9", SNOW_DIST |-> "D9", SNOW_TYPE |-> "1", ROAD_NAME |-> "Gone", LN_TOTALMI |-> Rat(1, 1), x |-> 0],
    [SNOW_FID |-> "R1", SNOW_DIST |-> "D1", SNOW_TYPE |-> "1", ROAD_NAME |-> "Main", LN_TOTALMI |-> Rat(3, 1), x |-> 0] }
OldPings ==
  { [unitName |-> "U9", datetime |-> 1, temporal |-> 3, spd |-> 20, x |-> 0],
    [unitName |-> "U9", datetime |-> 2, temporal |-> 2, spd |-> 20, x |-> 10] }

SnowTypes == 1 .. NumSnowTypes
TypeName(k) == CASE k = 1 -> "1" [] k = 2 -> "2" [] k = 3 -> "3" [] OTHER -> "4"

\* ------------------------------------------------- geoprocessing operators
\* The where clause of the "avl_table" layer: "TEMPORAL < 25 and spd <= 35".
WhereAvl(p) == p.temporal < TemporalLimit /\ p.spd <= SpeedLimit

\* The where clause of the "gdb_routes" layer: "SNOW_FID <> 'NORTE'".  A NULL
\* SNOW_FID compares as unknown, so the row is not selected.
WhereRoutes(s) == s.SNOW_FID # NullS /\ s.SNOW_FID # "NORTE"

\* MakeFeatureLayer with a where clause: the rows of the source that pass it.
AvlLayer(view) == { p \in view : WhereAvl(p) }
RoutesLayer(routes) == { s \in routes : WhereRoutes(s) }

\* The SUM statistic: NULL values are skipped, and the sum of none is NULL.
RECURSIVE SumLengths(_)
SumLengths(S) ==
  IF S = {} THEN NullD
  ELSE LET s == CHOOSE e \in S : TRUE
           rest == SumLengths(S \ {s})
       IN IF IsNull(s.LN_TOTALMI) THEN rest
          ELSE IF IsNull(rest) THEN s.LN_TOTALMI
          ELSE RatAdd(s.LN_TOTALMI, rest)

\* Dissolve on ["SNOW_DIST", "SNOW_TYPE", "ROAD_NAME"] with "LN_TOTALMI SUM".
Dissolve(F) ==
  { LET members == { m \in F : /\ m.SNOW_DIST = s.SNOW_DIST
                                /\ m.SNOW_TYPE = s.SNOW_TYPE
                                /\ m.ROAD_NAME = s.ROAD_NAME }
    IN [SNOW_DIST |-> s.SNOW_DIST, SNOW_TYPE |-> s.SNOW_TYPE,
        ROAD_NAME |-> s.ROAD_NAME,
        SUM_LN_TOTALMI |-> SumLengths(members),
        shape |-> { m.x : m \in members }] : s \in F }

\* SelectLayerByAttribute: "SNOW_TYPE = 'k' And SUM_LN_TOTALMI IS NOT NULL".
SelectSnowType(D, k) ==
  { g \in D : g.SNOW_TYPE = TypeName(k) /\ ~IsNull(g.SUM_LN_TOTALMI) }

\* Column [2] of the snow_types list.
Radius(k) == IF k <= 2 THEN RadiusMain ELSE RadiusSection

\* Straight-line distance from a point to a group's geometry.
Within(px, shape, r) == \E gx \in shape : Abs(px - gx) <= r

\* SummarizeNearby: each target row with the count of points within the radius.
SummarizeNearby(targets, points, r) ==
  { [SNOW_DIST |-> g.SNOW_DIST, SNOW_TYPE |-> g.SNOW_TYPE,
     ROAD_NAME |-> g.ROAD_NAME, SUM_LN_TOTALMI |-> g.SUM_LN_TOTALMI,
     shape |-> g.shape,
     Point_Count |-> Cardinality({ p \in points : Within(p.x, g.shape, r) })]
    : g \in targets }

\* "math.log1p(!percentage!)".  The logarithm is kept as a term over its
\* argument (log1p is one-to-one, and log1p(0) = 0); a NULL argument raises
\* TypeError and the row gets NULL, the term over NullD.
\* math.log1p raises ValueError (math domain error) on an argument <= -1.
NullLog == [log1p |-> NullD]
Log1p(p) == [log1p |-> p]
LogFaults(p) == ~IsNull(p) /\ ~RatGt(p, Rat(-1, 1))

\* AddFields: the four double fields, NULL in every row.
AddFields(T) ==
  { [SNOW_DIST |-> t.SNOW_DIST, SNOW_TYPE |-> t.SNOW_TYPE,
     ROAD_NAME |-> t.ROAD_NAME, SUM_LN_TOTALMI |-> t.SUM_LN_TOTALMI,
     shape |-> t.shape, Point_Count |-> t.Point_Count,
     dotsperlanemile |-> NullD, dotsperlanemilemax |-> NullD,
     percentage |-> NullD, log_percentage |-> NullLog] : t \in T }

\* "!Point_Count!/!SUM_LN_TOTALMI!" raises ZeroDivisionError on a zero sum.
DensityFaults(t) == IsZero(t.SUM_LN_TOTALMI)
DensityOf(t) == RatDiv(Rat(t.Point_Count, 1), t.SUM_LN_TOTALMI)

\* CalculateField on dotsperlanemile when the engine nulls the rows whose
\* expression raised and goes on.
CalcDensity(T) ==
  { [t EXCEPT !.dotsperlanemile = IF DensityFaults(t) THEN NullD ELSE DensityOf(t)]
    : t \in T }

\* The search cursor loop over the rows, from the current maximum:
\* "if a_row[0] > maximum: maximum = a_row[0]".
\* Comparing a NULL (None) with a float raises TypeError.
CursorFaults(T) == \E t \in T : IsNull(t.dotsperlanemile)
RECURSIVE ScanMax(_, _)
ScanMax(T, maximum) ==
  IF T = {} THEN maximum
  ELSE LET t == CHOOSE e \in T : TRUE
       IN ScanMax(T \ {t},
                  IF RatGt(t.dotsperlanemile, maximum) THEN t.dotsperlanemile
                                                       ELSE maximum)

\* "(!dotsperlanemile!/!dotsperlanemilemax!)*100" raises ZeroDivisionError when
\* dotsperlanemilemax is 0.0.
PercentFaults(mx) == IsZero(mx)
Percentage(dens, mx) == RatMul(RatDiv(dens, mx), Rat(PercentFactor, 1))

\* CalculateFields: "{}".format(maximum) writes the float's shortest repr,
\* which evaluates back to the same float; then percentage and log_percentage.
CalcPercent(T, mx) ==
  { LET pct == IF PercentFaults(mx) THEN NullD
               ELSE Percentage(t.dotsperlanemile, mx)
    IN [t EXCEPT !.dotsperlanemilemax = mx, !.percentage = pct,
                 !.log_percentage = IF IsNull(pct) \/ LogFaults(pct)
                                    THEN NullLog ELSE Log1p(pct)] : t \in T }

\* DeleteRows and Append with "NO_TEST".
DeleteRowsKeep(T) == T
DeleteRows(T) == {}
AppendRows(src, dst) == dst \cup src

\* Merge of the four destination tables.
Merge(D) == UNION { D[k] : k \in SnowTypes }

\* PointsToLine on "unitName" ordered by "datetime", "NO_CLOSE": one open
\* line per unit with two points or more.
RECURSIVE SortByTime(_)
SortByTime(P) ==
  IF P = {} THEN << >>
  ELSE LET first == CHOOSE p \in P : \A q \in P : p.datetime <= q.datetime
       IN << first.x >> \o SortByTime(P \ {first})
PointsToLine(P) ==
  { [unitName |-> u, vertices |-> SortByTime({ p \in P : p.unitName = u })]
    : u \in { p.unitName : p \in { q \in P :
                Cardinality({ r \in P : r.unitName = q.unitName }) >= 2 } } }

\* One whole pass of the loop body over snow type k, on given inputs.
TrafficOf(routes, view, k) ==
  LET T == CalcDensity(AddFields(SummarizeNearby(
             SelectSnowType(Dissolve(RoutesLayer(routes)), k),
             AvlLayer(view), Radius(k))))
  IN CalcPercent(T, ScanMax(T, Zero))

\* ------------------------------------------------------------- the state
VARIABLES
  sde_routes,                 \* rows of RoadwayInformation
  avl_table,                  \* rows of the view AVL.dbo.vw_AVLplow24
  runs,                       \* how many times the script has been started
  pc,                         \* the line main() is about to execute
  cls,                        \* index of snow_type in snow_types, 1..4
  logger,                     \* "none" or "ready"
  raised,                     \* the exception raised in this run, if any
  propagating,                \* an exception is leaving main()
  exit_status,                \* "running", "0" or "1"
  gdb,                        \* which geodatabases and feature classes exist
  layers,                     \* names of the layers made so far
  dissolved_routes_temp, dissolved_routes_dest,
  snow_type,                  \* the four selections, by index
  avl_plow_traffic_temp,      \* avlPlowTraffic1..4 of Telemetry_temp.gdb
  avl_plow_traffic_dest,      \* avlPlowTraffic1..4 of Telemetry.gdb
  maximum,
  avl_plow_traffic_all_temp, avl_plow_traffic_all_dest,
  avl_24, avl_plow_points, avl_plow_lines_mem, avl_plow_lines,
  before,                     \* the destination tables when the run started
  started, finished,          \* stages of this run begun / completed
  last_published              \* {} or {avlPlowTrafficAll after the last completed run}

sources == << sde_routes, avl_table >>
control == << pc, cls, logger, raised, propagating, exit_status >>
flow    == << cls, logger, raised, propagating, exit_status >>
env     == << gdb, layers >>
routeTables   == << dissolved_routes_temp, dissolved_routes_dest, snow_type >>
trafficTables == << avl_plow_traffic_temp, avl_plow_traffic_dest, maximum >>
allTables     == << avl_plow_traffic_all_temp, avl_plow_traffic_all_dest >>
lineTables    == << avl_24, avl_plow_points, avl_plow_lines_mem, avl_plow_lines >>
stages  == << started, finished >>
history == << before, started, finished, last_published >>
tables  == << routeTables, trafficTables, allTables, lineTables >>
vars    == << sources, runs, control, env, tables, history >>

NoException == [type |-> "none", at |-> "none", cause |-> "none"]

\* The destination tables of Telemetry.gdb.
Destinations ==
  [Dissolved |-> dissolved_routes_dest,
   avlPlowTraffic |-> avl_plow_traffic_dest,
   avlPlowTrafficAll |-> avl_plow_traffic_all_dest,
   avl_24 |-> avl_24,
   avlPlowPoints |-> avl_plow_points,
   avlPlowLines |-> avl_plow_lines]

\* Stage names of the design: 4.1 loader, 4.2 tracks, 4.3 aggregator,
\* 4.4 summarizer and 4.5 normalizer per snow type, 4.6 publisher.
Stage(name, k) == << name, k >>

Installs == { "undeployed", "fresh", "stale" }

Init ==
  /\ sde_routes \in Networks
  /\ avl_table \in Feeds
  /\ runs = 1
  /\ pc = "L275" /\ cls = 1 /\ logger = "none" /\ raised = NoException
  /\ propagating = FALSE /\ exit_status = "running"
  /\ layers = {} /\ maximum = Zero
  /\ snow_type = [k \in SnowTypes |-> {}]
  /\ avl_plow_lines_mem = {}
  /\ \E install \in Installs :
       /\ gdb = [temp |-> install = "stale", dest |-> install # "undeployed",
                 fcs |-> install # "undeployed"]
       /\ IF install = "stale"
          THEN /\ dissolved_routes_temp = Dissolve(RoutesLayer(OldRoutes))
               /\ dissolved_routes_dest = Dissolve(RoutesLayer(OldRoutes))
               /\ avl_plow_traffic_temp = [k \in SnowTypes |-> TrafficOf(OldRoutes, OldPings, k)]
               /\ avl_plow_traffic_dest = [k \in SnowTypes |-> TrafficOf(OldRoutes, OldPings, k)]
               /\ avl_plow_traffic_all_temp = UNION { TrafficOf(OldRoutes, OldPings, k) : k \in SnowTypes }
               /\ avl_plow_traffic_all_dest = UNION { TrafficOf(OldRoutes, OldPings, k) : k \in SnowTypes }
               /\ avl_24 = OldPings
               /\ avl_plow_points = OldPings
               /\ avl_plow_lines = PointsToLine(OldPings)
          ELSE /\ dissolved_routes_temp = {} /\ dissolved_routes_dest = {}
               /\ avl_plow_traffic_temp = [k \in SnowTypes |-> {}]
               /\ avl_plow_traffic_dest = [k \in SnowTypes |-> {}]
               /\ avl_plow_traffic_all_temp = {} /\ avl_plow_traffic_all_dest = {}
               /\ avl_24 = {} /\ avl_plow_points = {} /\ avl_plow_lines = {}
  /\ before = Destinations
  /\ started = {} /\ finished = {}
  /\ last_published = {}

\* ------------------------------------------------------------ exceptions
\* An exception of the given type leaves the statement at pc.
Raise(type, cause) ==
  /\ raised' = [type |-> type, at |-> pc, cause |-> cause]
  /\ pc' = "except"
  /\ UNCHANGED << cls, logger, propagating, exit_status >>

\* The statement at line `from` completes and control moves to line `to`.
Goto(from, to) ==
  /\ pc = from
  /\ pc' = to
  /\ UNCHANGED flow

\* ------------------------------------------------------------------ main
\* start_rotating_logging and the two opening log lines.
StartLogging ==
  /\ pc = "L275"
  /\ pc' = "L181"
  /\ logger' = "ready"
  /\ UNCHANGED << cls, raised, propagating, exit_status >>
  /\ UNCHANGED << sources, runs, env, tables, history >>

\* RotatingFileHandler cannot open the log file: IOError, logger stays None.
LoggingFails ==
  /\ pc = "L275"
  /\ Raise("IOError", "log file")
  /\ UNCHANGED << sources, runs, env, tables, history >>

\* ------------------------------------------------------------ RouteStats
\* if not arcpy.Exists(temp_fgdb): CreateFileGDB.
EnsureTempGdb ==
  /\ Goto("L181", "L184")
  /\ gdb' = [gdb EXCEPT !.temp = TRUE]
  /\ UNCHANGED << sources, runs, layers, tables, history >>

\* if not arcpy.Exists(gdb_routes): CreateFileGDB.  A new geodatabase holds
\* no feature class.
EnsureRoutesGdb ==
  /\ Goto("L184", "L188")
  /\ gdb' = [gdb EXCEPT !.dest = TRUE]
  /\ UNCHANGED << sources, runs, layers, tables, history >>

MakeRoutesLayer ==
  /\ Goto("L188", "L190")
  /\ layers' = layers \cup {"gdb_routes"}
  /\ started' = started \cup {Stage("4.3", 0)}
  /\ UNCHANGED << sources, runs, gdb, tables, before, finished, last_published >>

DissolveRoutes ==
  /\ Goto("L190", "L192")
  /\ dissolved_routes_temp' = Dissolve(RoutesLayer(sde_routes))
  /\ UNCHANGED << sources, runs, env, dissolved_routes_dest, snow_type,
                  trafficTables, allTables, lineTables, history >>

\* DeleteRows on a feature class that does not exist raises ExecuteError.
DeleteDissolved ==
  /\ pc = "L192"
  /\ IF gdb.fcs
     THEN /\ Goto("L192", "L193")
          /\ dissolved_routes_dest' = DeleteRows(dissolved_routes_dest)
     ELSE /\ Raise("ExecuteError", "no feature class")
          /\ UNCHANGED dissolved_routes_dest
  /\ UNCHANGED << sources, runs, env, dissolved_routes_temp, snow_type,
                  trafficTables, allTables, lineTables, history >>

AppendDissolved ==
  /\ Goto("L193", "L196")
  /\ dissolved_routes_dest' = AppendRows(dissolved_routes_temp, dissolved_routes_dest)
  /\ finished' = finished \cup {Stage("4.3", 0)}
  /\ UNCHANGED << sources, runs, env, dissolved_routes_temp, snow_type,
                  trafficTables, allTables, lineTables,
                  before, started, last_published >>

\* The lines of the four MakeFeatureLayer calls on dissolved_routes_temp, the
\* layer each makes, and the lines of the four SelectLayerByAttribute calls.
LayerLine(k) ==
  CASE k = 1 -> "L196" [] k = 2 -> "L197" [] k = 3 -> "L198" [] OTHER -> "L199"
LayerName(k) ==
  CASE k = 1 -> "dissolved_routes1" [] k = 2 -> "dissolved_routes2"
    [] k = 3 -> "dissolved_routes3" [] OTHER -> "dissolved_routes4"
SelectLine(k) ==
  CASE k = 1 -> "L200" [] k = 2 -> "L201" [] k = 3 -> "L202" [] OTHER -> "L203"

\* MakeFeatureLayer(dissolved_routes_temp, "dissolved_routes<k>"): one call
\* per line, lines 196 to 199.
MakeDissolvedLayers ==
  /\ \E k \in SnowTypes :
       /\ Goto(LayerLine(k),
               IF k = NumSnowTypes THEN SelectLine(1) ELSE LayerLine(k + 1))
       /\ layers' = layers \cup {LayerName(k)}
  /\ UNCHANGED << sources, runs, gdb, tables, history >>

\* snow_type_<k> = SelectLayerByAttribute("dissolved_routes<k>", ...): one
\* call per line, lines 200 to 203.
SelectSnowTypes ==
  /\ \E k \in SnowTypes :
       /\ Goto(SelectLine(k),
               IF k = NumSnowTypes THEN "L229" ELSE SelectLine(k + 1))
       /\ snow_type' =
            [snow_type EXCEPT ![k] = SelectSnowType(dissolved_routes_temp, k)]
  /\ UNCHANGED << sources, runs, env, dissolved_routes_temp, dissolved_routes_dest,
                  trafficTables, allTables, lineTables, history >>

\* for snow_type in snow_types: the row after the last ends the loop.
LoopDoneEarly(k) == k >= NumSnowTypes - 1
LoopDone(k) == k = NumSnowTypes

MakeAvlLayer ==
  /\ Goto("L229", "L230")
  /\ layers' = layers \cup {"avl_table"}
  /\ started' = started \cup {Stage("4.4", cls)}
  /\ UNCHANGED << sources, runs, gdb, tables, before, finished, last_published >>

Summarize ==
  /\ Goto("L230", "L233")
  /\ avl_plow_traffic_temp' =
       [avl_plow_traffic_temp EXCEPT ![cls] =
          SummarizeNearby(snow_type[cls], AvlLayer(avl_table), Radius(cls))]
  /\ finished' = finished \cup {Stage("4.4", cls)}
  /\ UNCHANGED << sources, runs, env, routeTables, avl_plow_traffic_dest, maximum,
                  allTables, lineTables, before, started, last_published >>

AddDensityFields ==
  /\ Goto("L233", "L238")
  /\ avl_plow_traffic_temp' =
       [avl_plow_traffic_temp EXCEPT ![cls] = AddFields(@)]
  /\ started' = started \cup {Stage("4.5", cls)}
  /\ UNCHANGED << sources, runs, env, routeTables, avl_plow_traffic_dest, maximum,
                  allTables, lineTables, before, finished, last_published >>

\* CalculateField on dotsperlanemile.  When the expression raises on a row the
\* engine either fails the tool (ExecuteError) or nulls the row with a warning.
CalculateDensity ==
  /\ pc = "L238"
  /\ \/ /\ Goto("L238", "L241")
        /\ avl_plow_traffic_temp' =
             [avl_plow_traffic_temp EXCEPT ![cls] = CalcDensity(@)]
     \/ /\ \E t \in avl_plow_traffic_temp[cls] : DensityFaults(t)
        /\ Raise("ExecuteError", "ZeroDivisionError")
        /\ UNCHANGED avl_plow_traffic_temp
  /\ UNCHANGED << sources, runs, env, routeTables, avl_plow_traffic_dest, maximum,
                  allTables, lineTables, history >>

\* maximum = 0.0
ResetMaximum ==
  /\ Goto("L241", "L242")
  /\ maximum' = Zero
  /\ UNCHANGED << sources, runs, env, routeTables, avl_plow_traffic_temp,
                  avl_plow_traffic_dest, allTables, lineTables, history >>

\* The search cursor loop.  A NULL row raises TypeError at the comparison,
\* with maximum updated by the rows read before it; the cursor's row order is
\* not a property of the table as modelled, so those rows are any of the
\* rows that hold a value.
FindMaximum ==
  /\ pc = "L242"
  /\ IF CursorFaults(avl_plow_traffic_temp[cls])
     THEN /\ Raise("TypeError", "NULL dotsperlanemile")
          /\ \E seen \in SUBSET { t \in avl_plow_traffic_temp[cls] :
                                    ~IsNull(t.dotsperlanemile) } :
               maximum' = ScanMax(seen, maximum)
     ELSE /\ Goto("L242", "L247")
          /\ maximum' = ScanMax(avl_plow_traffic_temp[cls], maximum)
  /\ UNCHANGED << sources, runs, env, routeTables, avl_plow_traffic_temp,
                  avl_plow_traffic_dest, allTables, lineTables, history >>

\* arcpy.da.SearchCursor raises RuntimeError when it cannot open the table.
CursorFails ==
  /\ pc = "L242"
  /\ Raise("RuntimeError", "engine")
  /\ UNCHANGED << sources, runs, env, tables, history >>

\* CalculateFields on dotsperlanemilemax, percentage and log_percentage.
CalculatePercent ==
  /\ pc = "L247"
  /\ \/ /\ Goto("L247", "L252")
        /\ avl_plow_traffic_temp' =
             [avl_plow_traffic_temp EXCEPT ![cls] = CalcPercent(@, maximum)]
     \/ /\ PercentFaults(maximum) /\ avl_plow_traffic_temp[cls] # {}
        /\ Raise("ExecuteError", "ZeroDivisionError")
        /\ UNCHANGED avl_plow_traffic_temp
     \/ /\ ~PercentFaults(maximum)
        /\ \E t \in avl_plow_traffic_temp[cls] :
             LogFaults(Percentage(t.dotsperlanemile, maximum))
        /\ Raise("ExecuteError", "ValueError")
        /\ UNCHANGED avl_plow_traffic_temp
  /\ UNCHANGED << sources, runs, env, routeTables, avl_plow_traffic_dest, maximum,
                  allTables, lineTables, history >>

DeleteTraffic ==
  /\ Goto("L252", "L253")
  /\ avl_plow_traffic_dest' =
       [avl_plow_traffic_dest EXCEPT ![cls] = DeleteRows(@)]
  /\ UNCHANGED << sources, runs, env, routeTables, avl_plow_traffic_temp, maximum,
                  allTables, lineTables, history >>

AppendTraffic ==
  /\ pc = "L253"
  /\ avl_plow_traffic_dest' =
       [avl_plow_traffic_dest EXCEPT ![cls] =
          AppendRows(avl_plow_traffic_temp[cls], @)]
  /\ finished' = finished \cup {Stage("4.5", cls)}
  /\ IF LoopDone(cls)
     THEN pc' = "L256" /\ UNCHANGED cls
     ELSE pc' = "L229" /\ cls' = cls + 1
  /\ UNCHANGED << logger, raised, propagating, exit_status >>
  /\ UNCHANGED << sources, runs, env, routeTables, avl_plow_traffic_temp, maximum,
                  allTables, lineTables, before, started, last_published >>

MergeTraffic ==
  /\ Goto("L256", "L257")
  /\ avl_plow_traffic_all_temp' = Merge(avl_plow_traffic_dest)
  /\ started' = started \cup {Stage("4.6", 0)}
  /\ UNCHANGED << sources, runs, env, routeTables, trafficTables,
                  avl_plow_traffic_all_dest, lineTables,
                  before, finished, last_published >>

DeletePublished ==
  /\ Goto("L257", "L258")
  /\ avl_plow_traffic_all_dest' = DeleteRows(avl_plow_traffic_all_dest)
  /\ UNCHANGED << sources, runs, env, routeTables, trafficTables,
                  avl_plow_traffic_all_temp, lineTables, history >>

AppendPublished ==
  /\ Goto("L258", "L283")
  /\ avl_plow_traffic_all_dest' =
       AppendRows(avl_plow_traffic_all_temp, avl_plow_traffic_all_dest)
  /\ finished' = finished \cup {Stage("4.6", 0)}
  /\ UNCHANGED << sources, runs, env, routeTables, trafficTables,
                  avl_plow_traffic_all_temp, lineTables,
                  before, started, last_published >>

\* logger.info("Completed RouteStats processing")
LogRouteStats ==
  /\ Goto("L283", "L119")
  /\ UNCHANGED << sources, runs, env, tables, history >>

\* ------------------------------------------------------------- SnowLines
\* MakeFeatureLayer(avl_table, "avl_table", where): the layer "avl_table".
MakeAvlLayerSnowLines ==
  /\ Goto("L119", "L136")
  /\ layers' = layers \cup {"avl_table"}
  /\ started' = started \cup {Stage("4.1", 0)}
  /\ UNCHANGED << sources, runs, gdb, tables, before, finished, last_published >>

DeleteAvl24 ==
  /\ Goto("L136", "L137")
  /\ avl_24' = DeleteRows(avl_24)
  /\ UNCHANGED << sources, runs, env, routeTables, trafficTables, allTables,
                  avl_plow_points, avl_plow_lines_mem, avl_plow_lines, history >>

\* Append(avl_table, avl_24, "NO_TEST"): the input is the variable avl_table,
\* the path of the view, not the layer named "avl_table".
AppendAvl24 ==
  /\ Goto("L137", "L140")
  /\ avl_24' = AppendRows(avl_table, avl_24)
  /\ finished' = finished \cup {Stage("4.1", 0)}
  /\ UNCHANGED << sources, runs, env, routeTables, trafficTables, allTables,
                  avl_plow_points, avl_plow_lines_mem, avl_plow_lines,
                  before, started, last_published >>

\* MakeXYEventLayer(avl_24, "lon", "lat", "avlPlowPoints"): a layer over avl_24.
MakeXYEventLayer ==
  /\ Goto("L140", "L141")
  /\ layers' = layers \cup {"avlPlowPoints"}
  /\ started' = started \cup {Stage("4.2", 0)}
  /\ UNCHANGED << sources, runs, gdb, tables, before, finished, last_published >>

DeletePlowPoints ==
  /\ Goto("L141", "L142")
  /\ avl_plow_points' = DeleteRows(avl_plow_points)
  /\ UNCHANGED << sources, runs, env, routeTables, trafficTables, allTables,
                  avl_24, avl_plow_lines_mem, avl_plow_lines, history >>

AppendPlowPoints ==
  /\ Goto("L142", "L143")
  /\ avl_plow_points' = AppendRows(avl_24, avl_plow_points)
  /\ UNCHANGED << sources, runs, env, routeTables, trafficTables, allTables,
                  avl_24, avl_plow_lines_mem, avl_plow_lines, history >>

MakePointsLayer ==
  /\ Goto("L143", "L144")
  /\ layers' = layers \cup {"avl_plow_points_mem"}
  /\ UNCHANGED << sources, runs, gdb, tables, history >>

BuildLines ==
  /\ Goto("L144", "L145")
  /\ avl_plow_lines_mem' = PointsToLine(avl_plow_points)
  /\ UNCHANGED << sources, runs, env, routeTables, trafficTables, allTables,
                  avl_24, avl_plow_points, avl_plow_lines, history >>

DeletePlowLines ==
  /\ Goto("L145", "L146")
  /\ avl_plow_lines' = DeleteRows(avl_plow_lines)
  /\ UNCHANGED << sources, runs, env, routeTables, trafficTables, allTables,
                  avl_24, avl_plow_points, avl_plow_lines_mem, history >>

AppendPlowLines ==
  /\ Goto("L146", "L286")
  /\ avl_plow_lines' = AppendRows(avl_plow_lines_mem, avl_plow_lines)
  /\ finished' = finished \cup {Stage("4.2", 0)}
  /\ UNCHANGED << sources, runs, env, routeTables, trafficTables, allTables,
                  avl_24, avl_plow_points, avl_plow_lines_mem,
                  before, started, last_published >>

\* logger.info("Completed SnowLines processing"); the try block ends.
LogSnowLines ==
  /\ Goto("L286", "finally")
  /\ UNCHANGED << sources, runs, env, tables, history >>

\* ------------------------------------------------- failures of the tools
\* The lines that call a geoprocessing tool.
ToolLines ==
  { "L181", "L184", "L188", "L190", "L192", "L193",
    "L196", "L197", "L198", "L199", "L200", "L201", "L202", "L203",
    "L229", "L230", "L233", "L238", "L247", "L252", "L253",
    "L256", "L257", "L258",
    "L119", "L136", "L137", "L140", "L141", "L142", "L143", "L144",
    "L145", "L146" }

\* The lines that open a data source, and the source each opens.
RoutesLines == { "L188", "L190" }
AvlLines == { "L229", "L230", "L119", "L137" }

\* Any tool may fail: arcpy raises ExecuteError.  CreateFileGDB is called
\* only when the geodatabase does not exist.
ToolFails ==
  /\ pc \in ToolLines
  /\ pc = "L181" => ~gdb.temp
  /\ pc = "L184" => ~gdb.dest
  /\ Raise("ExecuteError", "engine")
  /\ UNCHANGED << sources, runs, env, tables, history >>

\* The road-reference store or the telemetry view cannot be reached.
SourceUnavailable ==
  /\ pc \in RoutesLines \cup AvlLines
  /\ Raise("ExecuteError", IF pc \in RoutesLines THEN "routes unreachable"
                                                 ELSE "avl unreachable")
  /\ UNCHANGED << sources, runs, env, tables, history >>

\* ------------------------------------------------- except / finally / exit
\* The exception types the two except clauses of main() name.
Caught ==
  { "ValueError", "IOError", "KeyError", "NameError", "IndexError",
    "TypeError", "UnboundLocalError", "ExecuteError" }

\* The except clauses: a caught exception is logged with logger.error; with
\* logger still None that call raises AttributeError, which "except NameError"
\* does not catch.  Any other exception type is not caught at all.
Except ==
  /\ pc = "except"
  /\ pc' = "finally"
  /\ propagating' = (raised.type \notin Caught \/ logger = "none")
  /\ UNCHANGED << cls, logger, raised, exit_status >>
  /\ UNCHANGED << sources, runs, env, tables, history >>

\* The finally clause (logger.info raises AttributeError on None), then the
\* interpreter ends: status 1 when an exception left main(), else 0.
Finally ==
  /\ pc = "finally"
  /\ pc' = "exited"
  /\ propagating' = (propagating \/ logger = "none")
  /\ exit_status' = IF propagating \/ logger = "none" THEN "1" ELSE "0"
  /\ UNCHANGED << cls, logger, raised >>
  /\ UNCHANGED << sources, runs, env, tables, history >>

\* The script is started again over the same sources, whatever the run before
\* did: a new process over the same geodatabases; the in_memory workspace and
\* the layers are gone, the tables hold what the run before left.
NextRun ==
  /\ pc = "exited" /\ runs < MaxRuns
  /\ runs' = runs + 1
  /\ pc' = "L275" /\ cls' = 1 /\ logger' = "none" /\ raised' = NoException
  /\ propagating' = FALSE /\ exit_status' = "running"
  /\ layers' = {} /\ maximum' = Zero
  /\ snow_type' = [k \in SnowTypes |-> {}]
  /\ avl_plow_lines_mem' = {}
  /\ before' = Destinations
  /\ started' = {} /\ finished' = {}
  /\ last_published' = IF raised = NoException
                       THEN {avl_plow_traffic_all_dest} ELSE last_published
  /\ UNCHANGED << sources, gdb, dissolved_routes_temp, dissolved_routes_dest,
                  avl_plow_traffic_temp, avl_plow_traffic_dest, allTables,
                  avl_24, avl_plow_points, avl_plow_lines >>

Next ==
  \/ StartLogging \/ LoggingFails
  \/ EnsureTempGdb \/ EnsureRoutesGdb
  \/ MakeRoutesLayer \/ DissolveRoutes \/ DeleteDissolved \/ AppendDissolved
  \/ MakeDissolvedLayers \/ SelectSnowTypes
  \/ MakeAvlLayer \/ Summarize \/ AddDensityFields \/ CalculateDensity
  \/ ResetMaximum \/ FindMaximum \/ CursorFails \/ CalculatePercent
  \/ DeleteTraffic \/ AppendTraffic
  \/ MergeTraffic \/ DeletePublished \/ AppendPublished \/ LogRouteStats
  \/ MakeAvlLayerSnowLines \/ DeleteAvl24 \/ AppendAvl24
  \/ MakeXYEventLayer \/ DeletePlowPoints \/ AppendPlowPoints
  \/ MakePointsLayer \/ BuildLines \/ DeletePlowLines \/ AppendPlowLines
  \/ LogSnowLines
  \/ ToolFails \/ SourceUnavailable
  \/ Except \/ Finally \/ NextRun

Spec == Init /\ [][Next]_vars

\* ------------------------------------------------------------ properties
Exited == pc = "exited"
Aborted == Exited /\ raised # NoException
Completed == Exited /\ raised = NoException
Hundred == Rat(PercentFactor, 1)
SameGroup(a, b) ==
  /\ a.SNOW_DIST = b.SNOW_DIST
  /\ a.SNOW_TYPE = b.SNOW_TYPE
  /\ a.ROAD_NAME = b.ROAD_NAME
Positive(r) == ~IsNull(r) /\ RatGt(r, Zero)

\* The run's first read of a data source failed because the source could not
\* be reached: the road store at line 188, or the telemetry view at line 229
\* of the first pass.
FirstReadFailed ==
  \/ raised.cause = "routes unreachable" /\ raised.at = "L188"
  \/ raised.cause = "avl unreachable" /\ raised.at = "L229" /\ cls = 1

\* A class with a row of positive density is normalized: some row has
\* percentage 100, every percentage lies in [0, 100], and every row holding
\* the greatest density has percentage 100.
ClassNormalized(T) ==
  (\E t \in T : Positive(t.dotsperlanemile)) =>
    /\ \E t \in T : t.percentage = Hundred
    /\ \A t \in T : /\ ~IsNull(t.percentage)
                    /\ ~RatGt(Zero, t.percentage)
                    /\ ~RatGt(t.percentage, Hundred)
    /\ \A t \in T :
         (\A u \in T : ~RatGt(u.dotsperlanemile, t.dotsperlanemile))
           => t.percentage = Hundred

\* C1: a run that aborts before the publish step has completed leaves
\* avlPlowTrafficAll with exactly the rows it had when the run started (the
\* old rows are never deleted without the new ones being appended).
C1_AbortKeepsPublished ==
  (Aborted /\ Stage("4.6", 0) \notin finished)
    => avl_plow_traffic_all_dest = before.avlPlowTrafficAll

\* C2: when a data source is unreachable at the run's first read of it (the
\* road store at line 188, the telemetry view at line 229 of the first pass),
\* no destination table has been changed.
C2_AbortBeforeOverwrite == FirstReadFailed => Destinations = before

\* C3: in a normalized class with a row of positive density, some row has
\* percentage 100, every percentage lies in [0, 100], and every row holding
\* the class's greatest density has percentage 100.
C3_PercentageRange ==
  \A k \in SnowTypes :
    Stage("4.5", k) \in finished =>
      /\ ClassNormalized(avl_plow_traffic_temp[k])
      /\ ClassNormalized(avl_plow_traffic_dest[k])

\* C4: after a completed run avlPlowTrafficAll is the merge of the four
\* passes over this run's sources, whatever the tables held before, and it
\* equals what the preceding completed run on the same sources published.
C4_PublishedFromInput ==
  Completed =>
    /\ avl_plow_traffic_all_dest =
         UNION { TrafficOf(sde_routes, avl_table, k) : k \in SnowTypes }
    /\ last_published # {} => last_published = {avl_plow_traffic_all_dest}
\* Witness of C4: a completed run that published rows, started over a
\* published table holding a group that this run's road network no longer has.
C4_Witness ==
  /\ Completed
  /\ avl_plow_traffic_all_dest # {}
  /\ \E r \in before.avlPlowTrafficAll :
       \A t \in avl_plow_traffic_all_dest : ~SameGroup(r, t)

\* C5: after a completed run no row of Dissolved or of
\* avlPlowTrafficAll has district (SNOW_DIST) "NORTE".
C5_NoNorteDistrict ==
  Completed =>
    \A r \in dissolved_routes_dest \cup avl_plow_traffic_all_dest :
      r.SNOW_DIST # "NORTE"

\* C6: the density expression is never evaluated on a zero or NULL
\* SUM_LN_TOTALMI: CalculateField at line 238 never faults on a division and
\* leaves no row without a density.
C6_NoZeroDenominator ==
  /\ ~(raised.at = "L238" /\ raised.cause = "ZeroDivisionError")
  /\ pc \in {"L241", "L242"} => ~CursorFaults(avl_plow_traffic_temp[cls])

\* C7: a run in which a stage raised ends with a non-zero exit status.
C7_NonZeroExit == Aborted => exit_status = "1"

\* C8: once SnowLines has loaded avl_24, every ping in it has TEMPORAL < 25
\* and spd <= 35.
C8_LoadedPingsFiltered ==
  Stage("4.1", 0) \in finished => \A p \in avl_24 : WhereAvl(p)

\* C9: for a class whose maximum is 0, CalculateFields at line 247 does not
\* fault on a division and sets percentage and log_percentage to 0 in every row.
C9_ZeroClassGetsZero ==
  /\ ~(raised.at = "L247" /\ raised.cause = "ZeroDivisionError")
  /\ (pc = "L252" /\ IsZero(maximum)) =>
       \A t \in avl_plow_traffic_temp[cls] :
         IsZero(t.percentage) /\ t.log_percentage = Log1p(Zero)

\* C10 as claimed: no summarizer pass starts before the SnowLines extract
\* (stage 4.1) has finished.
C10_LoaderBeforeSummarizer ==
  \A k \in SnowTypes :
    Stage("4.4", k) \in started => Stage("4.1", 0) \in finished
\* C10 as amended: the aggregator finishes before any summarizer pass; each
\* pass counts the pings of the view that pass the where clause, read from the
\* view itself; a class is normalized after it is summarized; the merge starts
\* after all four passes; and the SnowLines extract starts after the merge
\* has been published.
C10_StageOrder ==
  /\ \A k \in SnowTypes :
       /\ Stage("4.4", k) \in started => Stage("4.3", 0) \in finished
       /\ Stage("4.5", k) \in started => Stage("4.4", k) \in finished
       /\ Stage("4.4", k) \in finished =>
            \A t \in avl_plow_traffic_temp[k] :
              t.Point_Count =
                Cardinality({ p \in avl_table :
                                WhereAvl(p) /\ Within(p.x, t.shape, Radius(k)) })
  /\ Stage("4.6", 0) \in started =>
       \A k \in SnowTypes : Stage("4.5", k) \in finished
  /\ Stage("4.1", 0) \in started => Stage("4.6", 0) \in finished
\* Witness of C10: the merge has started in a run whose first pass counted a
\* ping.
C10_Witness ==
  /\ Stage("4.6", 0) \in started
  /\ \E t \in avl_plow_traffic_temp[1] : t.Point_Count > 0
====
